---- MODULE Spec2Model ----
(***************************************************************************)
(* A model of the A* search engine of samuel/go-astar (package astar,      *)
(* src/astar/astar.go and src/astar/iface.go).                             *)
(*                                                                         *)
(* One behaviour of the model is one call FindPath(mp, start, end).  The   *)
(* graph mp (its Neighbors lists and which of the optional interfaces      *)
(* Debug and PossiblePath it implements) is chosen in the initial state    *)
(* and never changes.  The value HeuristicCost(n, end) returns is chosen   *)
(* at the call: the driver asks it only for a node that has no record and  *)
(* gives the node a record at once, so no node is asked twice and the      *)
(* values chosen are those of one function.  Whether a call of Neighbors   *)
(* or HeuristicCost returns an error is chosen at the call as well.        *)
(*                                                                         *)
(* The driver is cut into three steps: Start (lines 121-143), Pop (one     *)
(* iteration of the outer loop up to the Neighbors call, lines 145-163)    *)
(* and Edge (one iteration of the inner loop, lines 164-217).              *)
(*                                                                         *)
(* Spec is one call of FindPath.  FairSpec is Spec's program with the      *)
(* fairness of sequential code, TwiceSpec runs FindPath a second time on   *)
(* the same graph, and HeapSpec applies the driver's uses of the heap to   *)
(* any records in any order.  BigSpec is Spec with edge costs float32      *)
(* rounds, TieSpec is Spec's program on graphs of five nodes with          *)
(* predicted costs so large that float32 ranks all records equal, and      *)
(* LegacySpec is the older driver of src/astar.go (lines 1-207).           *)
(***************************************************************************)
EXTENDS Integers, Sequences, FiniteSets, TLC

\* ------------------------------------------------------------------ bounds
\* Node ids are NoParent..MaxNode: the value the driver uses as the parent of
\* the start record, and MaxNode + 1 ordinary ids.
MaxNode == 2
\* Edge costs are 0..MaxCost, heuristic values 0..MaxH.
MaxCost == 2
MaxH == 1
\* A graph reports at most MaxEdges edges in all.
MaxEdges == 3

\* ------------------------------------------------------- program constants
\* parent of the start record (astar.go:138)
NoParent == -1
\* index of a record that is not in the heap (astar.go:99)
NoIndex == -1
\* 2^24: float32, the type of cost and predictedCost (astar.go:16-17), holds
\* every integer up to it and rounds the larger ones to 24 significant bits
F32Exact == 16777216

Nodes == NoParent..MaxNode
Costs == 0..MaxCost
HCosts == 0..MaxH
EdgeT == [Node : Nodes, Cost : Costs]

VARIABLES
    nbrs,       \* the graph: nbrs[n] is the list Neighbors(n, ...) returns
    hasDebug,   \* the graph implements Debug
    hasPP,      \* the graph implements PossiblePath
    start, end, \* the arguments of FindPath
    info,       \* state.info: node -> its nodeInfo record (absent: no record)
    heap,       \* state.heap: the nodes whose records are in the open list
    maxCost,    \* state.maxCost
    pc,         \* where FindPath is: "init", "loop", "edges", "done", "hang"
    current,    \* the node popped by the running iteration of the outer loop
    pending,    \* the edges of neighbors the inner loop has not examined yet
    result,     \* what FindPath returned: [path, err]
    calls,      \* every call FindPath made on the graph, in order
    first       \* <<[result, calls]>> of the call of FindPath that returned
                \* before the running one, on the same graph; else <<>>

graphVars == <<nbrs, hasDebug, hasPP, start, end>>
vars == <<nbrs, hasDebug, hasPP, start, end,
          info, heap, maxCost, pc, current, pending, result, calls, first>>

\* --------------------------------------------------------------- float32
\* A float32 that may be +Inf (state.maxCost) is <<>> for +Inf and <<c>> for
\* the number c; every other cost is a natural number.
Inf == <<>>

RECURSIVE Ulp(_, _)
\* the spacing of float32 values around x >= 0
Ulp(x, u) == IF x < u * F32Exact THEN u ELSE Ulp(x, 2 * u)

\* float32(x): x rounded to 24 significant bits, ties to even
F32(x) ==
    LET u == Ulp(x, 1)
        lo == (x \div u) * u
        r == x - lo
    IN  IF 2 * r < u THEN lo
        ELSE IF 2 * r > u THEN lo + u
        ELSE IF (lo \div u) % 2 = 0 THEN lo ELSE lo + u

\* a + b with b left out
F32Add_First(a, b) == F32(a)

\* a + b in float32
F32Add(a, b) == F32(a + b)

\* a < m for a float32 a and a float32 m that may be +Inf
F32Less(a, m) == m = Inf \/ a < m[1]

\* Go's integer division truncates toward zero
GoDiv(a, b) == IF a >= 0 THEN a \div b ELSE -((-a) \div b)

\* ------------------------------------------------------------------ heap
\* A heap state is [info, heap]; heap[i + 1] is Go's nl.heap[i].
At(hs, i) == hs.info[hs.heap[i + 1]]

\* less on cost alone, predictedCost left out
less_CostOnly(hs, i, j) == At(hs, i).cost < At(hs, j).cost

less(hs, i, j) ==
    F32Add(At(hs, i).cost, At(hs, i).predictedCost)
        < F32Add(At(hs, j).cost, At(hs, j).predictedCost)

swap(hs, i, j) ==
    LET ni == hs.heap[i + 1]
        nj == hs.heap[j + 1]
        h1 == [hs.heap EXCEPT ![i + 1] = nj, ![j + 1] = ni]
        i1 == [hs.info EXCEPT ![h1[i + 1]].index = i]
        i2 == [i1 EXCEPT ![h1[j + 1]].index = j]
    IN  [info |-> i2, heap |-> h1]

RECURSIVE up(_, _)
up(hs, j) ==
    LET i == GoDiv(j - 1, 2)
    IN  IF i = j \/ ~less(hs, j, i) THEN hs ELSE up(swap(hs, i, j), i)

RECURSIVE down(_, _, _)
down(hs, i, n) ==
    LET j1 == 2 * i + 1
        j2 == j1 + 1
        j == IF j2 < n /\ ~less(hs, j1, j2) THEN j2 ELSE j1
    IN  IF j1 >= n \/ j1 < 0 THEN hs
        ELSE IF ~less(hs, j, i) THEN hs
        ELSE down(swap(hs, i, j), j, n)

\* popBest without the assignment v.index = -1 of its line 99
popBest_KeepIndex(hs) ==
    LET n == Len(hs.heap) - 1
        d == down(swap(hs, 0, n), 0, n)
    IN  [info |-> d.info, heap |-> SubSeq(d.heap, 1, n), node |-> d.heap[n + 1]]

\* popBest on a non-empty heap: [info, heap, node], node the popped one
popBest(hs) ==
    LET n == Len(hs.heap) - 1
        d == down(swap(hs, 0, n), 0, n)
        v == d.heap[n + 1]
    IN  [info |-> [d.info EXCEPT ![v].index = NoIndex],
         heap |-> SubSeq(d.heap, 1, n),
         node |-> v]

addNodeInfo(hs, ni) ==
    LET i == Len(hs.heap)
        inf == IF ni.node \in DOMAIN hs.info
               THEN [hs.info EXCEPT ![ni.node] = [ni EXCEPT !.index = i]]
               ELSE hs.info @@ (ni.node :> [ni EXCEPT !.index = i])
    IN  up([info |-> inf, heap |-> Append(hs.heap, ni.node)], i)

\* updateNodeInfo that adds the record to the heap once more
updateNodeInfo_AddAgain(hs, node) == addNodeInfo(hs, hs.info[node])

updateNodeInfo(hs, node) ==
    LET index == hs.info[node].index
        n == Len(hs.heap)
    IN  up(down(hs, index, n), index)

\* ------------------------------------------------------------ pathToNode
RECURSIVE Chain(_, _, _)
\* The nodes the loop of pathToNode appends, from the record of n on.  The
\* loop ends at a record whose parent has no record; it never ends when the
\* parent links lead back to a record already visited.
Chain(inf, n, seen) ==
    IF n \in seen THEN [loops |-> TRUE, nodes |-> <<>>]
    ELSE LET p == inf[n].parent
         IN  IF p \notin DOMAIN inf THEN [loops |-> FALSE, nodes |-> <<n>>]
             ELSE LET c == Chain(inf, p, seen \cup {n})
                  IN  [loops |-> c.loops, nodes |-> <<n>> \o c.nodes]

Reverse(s) == [i \in 1..Len(s) |-> s[Len(s) + 1 - i]]

\* pathToNode without the reversal of its lines 32-36
pathToNode_NoReverse(inf, n) ==
    LET c == Chain(inf, n, {})
    IN  [loops |-> c.loops, path |-> c.nodes]

\* pathToNode(the record of n): [loops, path]
pathToNode(inf, n) ==
    LET c == Chain(inf, n, {})
    IN  [loops |-> c.loops, path |-> Reverse(c.nodes)]

\* ----------------------------------------------------------- the driver
NoErr == <<>>
ErrImpossible == <<"ErrImpossible">>
\* the error value a failing call op(n, ...) of the graph returns
GraphErr(op, n) == <<op, n>>

\* One call on the graph, as it appears in calls: the method, its arguments
\* (node, parent, cost, pcost, path: those the method has) and the error it
\* returned.  pcost of a HeuristicCost call is the value it returned.
Call(op, n, parent, cost, pcost, path, err) ==
    [op |-> op, node |-> n, parent |-> parent, cost |-> cost,
     pcost |-> pcost, path |-> path, err |-> err]
CallH(n, h, ok) ==
    Call("HeuristicCost", n, 0, 0, IF ok THEN h ELSE 0, <<>>,
         IF ok THEN NoErr ELSE GraphErr("HeuristicCost", n))
CallN(n, ok) ==
    Call("Neighbors", n, 0, 0, 0, <<>>, IF ok THEN NoErr ELSE GraphErr("Neighbors", n))
CallV(ni) ==
    Call("VisitedNode", ni.node, ni.parent, ni.cost, ni.predictedCost, <<>>, NoErr)
CallP(path, cost) == Call("PossiblePath", 0, 0, cost, 0, path, NoErr)

\* return path, err
Return(S, path, err, made) ==
    [S EXCEPT !.pc = "done", !.pending = <<>>,
              !.result = [path |-> path, err |-> err],
              !.calls = S.calls \o made]

\* return nil, ErrImpossible where the driver returns nil, err
Fail_ErrImpossible(S, made) == Return(S, <<>>, ErrImpossible, made)

\* return nil, err: err is the error the last call of made returned
Fail(S, made) == Return(S, <<>>, made[Len(made)].err, made)

\* pathToNode never returns: its loop appends nodes until memory runs out
Hang(S, made) ==
    [S EXCEPT !.pc = "hang", !.pending = <<>>, !.calls = S.calls \o made]

\* StartStep with the start record added before err is looked at
StartStep_AddFirst(S, G, ok, h) ==
    LET made == <<CallH(G.start, h, ok)>>
        ni == [node |-> G.start, parent |-> NoParent, index |-> NoIndex,
               cost |-> 0, predictedCost |-> F32(h)]
        hs == addNodeInfo([info |-> S.info, heap |-> S.heap], ni)
        S1 == [S EXCEPT !.info = hs.info, !.heap = hs.heap]
    IN  IF ~ok THEN Fail(S1, made)
        ELSE [S1 EXCEPT !.pc = "loop", !.calls = S.calls \o made]

\* StartStep with start itself as the parent of the start record
StartStep_SelfParent(S, G, ok, h) ==
    LET made == <<CallH(G.start, h, ok)>>
        ni == [node |-> G.start, parent |-> G.start, index |-> NoIndex,
               cost |-> 0, predictedCost |-> F32(h)]
        hs == addNodeInfo([info |-> S.info, heap |-> S.heap], ni)
    IN  IF ~ok THEN Fail(S, made)
        ELSE [S EXCEPT !.info = hs.info, !.heap = hs.heap, !.pc = "loop",
                       !.calls = S.calls \o made]

\* StartStep that asks HeuristicCost(start, end) a second time
StartStep_AskTwice(S, G, ok, h) ==
    LET made == <<CallH(G.start, h, ok), CallH(G.start, h, ok)>>
        ni == [node |-> G.start, parent |-> NoParent, index |-> NoIndex,
               cost |-> 0, predictedCost |-> F32(h)]
        hs == addNodeInfo([info |-> S.info, heap |-> S.heap], ni)
    IN  IF ~ok THEN Fail(S, made)
        ELSE [S EXCEPT !.info = hs.info, !.heap = hs.heap, !.pc = "loop",
                       !.calls = S.calls \o made]

\* FindPath up to the outer loop (astar.go:121-143).  The capacity computed
\* from end - start only sizes the map.  ok: HeuristicCost returns no error;
\* h: the value it returns.
StartStep(S, G, ok, h) ==
    LET made == <<CallH(G.start, h, ok)>>
        ni == [node |-> G.start, parent |-> NoParent, index |-> NoIndex,
               cost |-> 0, predictedCost |-> F32(h)]
        hs == addNodeInfo([info |-> S.info, heap |-> S.heap], ni)
    IN  IF ~ok THEN Fail(S, made)
        ELSE [S EXCEPT !.info = hs.info, !.heap = hs.heap, !.pc = "loop",
                       !.calls = S.calls \o made]

\* PopStep with VisitedNode called before the test of lines 154-156
PopStep_DebugFirst(S, G, dbg, ok) ==
    IF S.heap = <<>> THEN Return(S, <<>>, ErrImpossible, <<>>)
    ELSE
    LET p == popBest([info |-> S.info, heap |-> S.heap])
        cur == p.info[p.node]
        S1 == [S EXCEPT !.info = p.info, !.heap = p.heap, !.current = <<p.node>>]
        pth == pathToNode(p.info, p.node)
        seen == IF dbg THEN <<CallV(cur)>> ELSE <<>>
        made == seen \o <<CallN(p.node, ok)>>
    IN  IF p.node = G.end
        THEN IF pth.loops THEN Hang(S1, <<>>) ELSE Return(S1, pth.path, NoErr, <<>>)
        ELSE IF ~F32Less(cur.cost, S.maxCost) THEN [S1 EXCEPT !.calls = S.calls \o seen]
        ELSE IF ~ok THEN Fail(S1, made)
        ELSE [S1 EXCEPT !.pending = G.nbrs[p.node],
                        !.pc = IF G.nbrs[p.node] = <<>> THEN "loop" ELSE "edges",
                        !.calls = S.calls \o made]

\* PopStep without the test of current.cost against maxCost
PopStep_NoPrune(S, G, dbg, ok) ==
    IF S.heap = <<>> THEN Return(S, <<>>, ErrImpossible, <<>>)
    ELSE
    LET p == popBest([info |-> S.info, heap |-> S.heap])
        cur == p.info[p.node]
        S1 == [S EXCEPT !.info = p.info, !.heap = p.heap, !.current = <<p.node>>]
        pth == pathToNode(p.info, p.node)
        made == (IF dbg THEN <<CallV(cur)>> ELSE <<>>) \o <<CallN(p.node, ok)>>
    IN  IF p.node = G.end
        THEN IF pth.loops THEN Hang(S1, <<>>) ELSE Return(S1, pth.path, NoErr, <<>>)
        ELSE IF ~ok THEN Fail(S1, made)
        ELSE [S1 EXCEPT !.pending = G.nbrs[p.node],
                        !.pc = IF G.nbrs[p.node] = <<>> THEN "loop" ELSE "edges",
                        !.calls = S.calls \o made]

\* PopStep that calls Neighbors a second time for the node it pops
PopStep_NeighborsTwice(S, G, dbg, ok) ==
    IF S.heap = <<>> THEN Return(S, <<>>, ErrImpossible, <<>>)
    ELSE
    LET p == popBest([info |-> S.info, heap |-> S.heap])
        cur == p.info[p.node]
        S1 == [S EXCEPT !.info = p.info, !.heap = p.heap, !.current = <<p.node>>]
        pth == pathToNode(p.info, p.node)
        made == (IF dbg THEN <<CallV(cur)>> ELSE <<>>)
                    \o <<CallN(p.node, TRUE), CallN(p.node, ok)>>
    IN  IF p.node = G.end
        THEN IF pth.loops THEN Hang(S1, <<>>) ELSE Return(S1, pth.path, NoErr, <<>>)
        ELSE IF ~F32Less(cur.cost, S.maxCost) THEN S1
        ELSE IF ~ok THEN Fail(S1, made)
        ELSE [S1 EXCEPT !.pending = G.nbrs[p.node],
                        !.pc = IF G.nbrs[p.node] = <<>> THEN "loop" ELSE "edges",
                        !.calls = S.calls \o made]

\* One iteration of the outer loop up to the inner loop (astar.go:145-163).
\* dbg: the graph implements Debug.  ok: Neighbors returns no error.
PopStep(S, G, dbg, ok) ==
    IF S.heap = <<>> THEN Return(S, <<>>, ErrImpossible, <<>>)
    ELSE
    LET p == popBest([info |-> S.info, heap |-> S.heap])
        cur == p.info[p.node]
        S1 == [S EXCEPT !.info = p.info, !.heap = p.heap, !.current = <<p.node>>]
        pth == pathToNode(p.info, p.node)
        made == (IF dbg THEN <<CallV(cur)>> ELSE <<>>) \o <<CallN(p.node, ok)>>
    IN  IF p.node = G.end
        THEN IF pth.loops THEN Hang(S1, <<>>) ELSE Return(S1, pth.path, NoErr, <<>>)
        ELSE IF ~F32Less(cur.cost, S.maxCost) THEN S1
        ELSE IF ~ok THEN Fail(S1, made)
        ELSE [S1 EXCEPT !.pending = G.nbrs[p.node],
                        !.pc = IF G.nbrs[p.node] = <<>> THEN "loop" ELSE "edges",
                        !.calls = S.calls \o made]

\* the end of one iteration of the inner loop: the next edge, or the outer loop
NextEdge(S, rest) ==
    [S EXCEPT !.pending = rest, !.pc = IF rest = <<>> THEN "loop" ELSE "edges"]

\* Report with the cost of the record the path is built from as the cost
\* notified: that of current, not cost, for a route that is no improvement
Report_CurrentCost(S, G, pp, cost, from, tail, reported, rest, made) ==
    LET S1 == [S EXCEPT !.maxCost = IF F32Less(cost, S.maxCost) THEN <<cost>> ELSE S.maxCost]
        pth == pathToNode(S1.info, from)
    IN  IF ~pp THEN NextEdge([S1 EXCEPT !.calls = S.calls \o made], rest)
        ELSE IF pth.loops THEN Hang(S1, made)
        ELSE NextEdge([S1 EXCEPT !.calls =
                          S.calls \o made \o <<CallP(pth.path \o tail, S1.info[from].cost)>>], rest)

\* Report that leaves maxCost as it is
Report_KeepBound(S, G, pp, cost, from, tail, reported, rest, made) ==
    LET S1 == S
        pth == pathToNode(S1.info, from)
    IN  IF ~pp THEN NextEdge([S1 EXCEPT !.calls = S.calls \o made], rest)
        ELSE IF pth.loops THEN Hang(S1, made)
        ELSE NextEdge([S1 EXCEPT !.calls =
                          S.calls \o made \o <<CallP(pth.path \o tail, reported)>>], rest)

\* astar.go:200-206 and 210-215: lower maxCost to cost and report the path
\* that ends in end (tail is <<end>> when the path is that of current).
Report(S, G, pp, cost, from, tail, reported, rest, made) ==
    LET S1 == [S EXCEPT !.maxCost = IF F32Less(cost, S.maxCost) THEN <<cost>> ELSE S.maxCost]
        pth == pathToNode(S1.info, from)
    IN  IF ~pp THEN NextEdge([S1 EXCEPT !.calls = S.calls \o made], rest)
        ELSE IF pth.loops THEN Hang(S1, made)
        ELSE NextEdge([S1 EXCEPT !.calls =
                          S.calls \o made \o <<CallP(pth.path \o tail, reported)>>], rest)

\* the test of astar.go:188 with <= for <
Cheaper_OrEqual(cost, ni) == cost <= ni.cost

\* astar.go:188: the path through current to the node of ni is cheaper than
\* the one ni records
Cheaper(cost, ni) == cost < ni.cost

\* Relax with the cost of the edge alone as the cost of the neighbor
Relax_EdgeCostOnly(S, G, pp, ok, h) ==
    LET edge == Head(S.pending)
        rest == Tail(S.pending)
        cur == S.info[S.current[1]]
        cost == F32(edge.Cost)
        new == [node |-> edge.Node, parent |-> cur.node, index |-> NoIndex,
                cost |-> cost, predictedCost |-> F32(h)]
        hs == [info |-> S.info, heap |-> S.heap]
    IN  IF edge.Node \notin DOMAIN S.info
        THEN IF ~ok
             THEN Fail(S, <<CallH(edge.Node, h, ok)>>)
             ELSE LET a == addNodeInfo(hs, new)
                      S1 == [S EXCEPT !.info = a.info, !.heap = a.heap]
                  IN  IF edge.Node = G.end
                      THEN Report(S1, G, pp, cost, edge.Node, <<>>,
                                  a.info[edge.Node].cost, rest, <<CallH(edge.Node, h, ok)>>)
                      ELSE NextEdge([S1 EXCEPT !.calls = S.calls \o <<CallH(edge.Node, h, ok)>>], rest)
        ELSE IF Cheaper(cost, S.info[edge.Node])
        THEN LET upd == [S.info EXCEPT ![edge.Node].parent = cur.node,
                                       ![edge.Node].cost = cost]
                 a == IF upd[edge.Node].index >= 0
                      THEN updateNodeInfo([info |-> upd, heap |-> S.heap], edge.Node)
                      ELSE addNodeInfo([info |-> upd, heap |-> S.heap], upd[edge.Node])
                 S1 == [S EXCEPT !.info = a.info, !.heap = a.heap]
             IN  IF edge.Node = G.end
                 THEN Report(S1, G, pp, cost, edge.Node, <<>>,
                             a.info[edge.Node].cost, rest, <<>>)
                 ELSE NextEdge(S1, rest)
        ELSE IF edge.Node = G.end
        THEN Report(S, G, pp, cost, cur.node, <<G.end>>, cost, rest, <<>>)
        ELSE NextEdge(S, rest)

\* astar.go:170-217: what the inner loop does with an edge it does not skip,
\* the first edge of pending.  pp: the graph implements PossiblePath.  ok:
\* HeuristicCost, if called, returns no error; h: the value it returns.
Relax(S, G, pp, ok, h) ==
    LET edge == Head(S.pending)
        rest == Tail(S.pending)
        cur == S.info[S.current[1]]
        cost == F32Add(cur.cost, F32(edge.Cost))
        new == [node |-> edge.Node, parent |-> cur.node, index |-> NoIndex,
                cost |-> cost, predictedCost |-> F32(h)]
        hs == [info |-> S.info, heap |-> S.heap]
    IN  IF edge.Node \notin DOMAIN S.info
        THEN IF ~ok
             THEN Fail(S, <<CallH(edge.Node, h, ok)>>)
             ELSE LET a == addNodeInfo(hs, new)
                      S1 == [S EXCEPT !.info = a.info, !.heap = a.heap]
                  IN  IF edge.Node = G.end
                      THEN Report(S1, G, pp, cost, edge.Node, <<>>,
                                  a.info[edge.Node].cost, rest, <<CallH(edge.Node, h, ok)>>)
                      ELSE NextEdge([S1 EXCEPT !.calls = S.calls \o <<CallH(edge.Node, h, ok)>>], rest)
        ELSE IF Cheaper(cost, S.info[edge.Node])
        THEN LET upd == [S.info EXCEPT ![edge.Node].parent = cur.node,
                                       ![edge.Node].cost = cost]
                 a == IF upd[edge.Node].index >= 0
                      THEN updateNodeInfo([info |-> upd, heap |-> S.heap], edge.Node)
                      ELSE addNodeInfo([info |-> upd, heap |-> S.heap], upd[edge.Node])
                 S1 == [S EXCEPT !.info = a.info, !.heap = a.heap]
             IN  IF edge.Node = G.end
                 THEN Report(S1, G, pp, cost, edge.Node, <<>>,
                             a.info[edge.Node].cost, rest, <<>>)
                 ELSE NextEdge(S1, rest)
        ELSE IF edge.Node = G.end
        THEN Report(S, G, pp, cost, cur.node, <<G.end>>, cost, rest, <<>>)
        ELSE NextEdge(S, rest)

\* One iteration of the inner loop (astar.go:164-217), on the first edge of
\* pending: an edge to the parent of current is skipped (astar.go:166-168).
EdgeStep(S, G, pp, ok, h) ==
    IF Head(S.pending).Node = S.info[S.current[1]].parent
    THEN NextEdge(S, Tail(S.pending))
    ELSE Relax(S, G, pp, ok, h)

\* ------------------------------------------------------------ the graphs
SeqsUpTo(T, k) == UNION {[1..m -> T] : m \in 0..k}

\* The edges of a graph, as <<source, edge>> pairs: at most MaxEdges of them,
\* listed by source; the edges of one source are in any order, and two of
\* them may lead to the same node.  A graph reports no edge from a node to
\* itself (the driver finds the node's own record with a cost that is not
\* lower, and does nothing).
EdgeLists ==
    {es \in SeqsUpTo(Nodes \X EdgeT, MaxEdges) :
        /\ \A i \in 1..Len(es) : es[i][1] # es[i][2].Node
        /\ \A i \in 1..(Len(es) - 1) : es[i][1] <= es[i + 1][1]}

RECURSIVE EdgesOf(_, _)
\* Neighbors(n, ...): the edges of es whose source is n, in their order
EdgesOf(es, n) ==
    IF es = <<>> THEN <<>>
    ELSE IF Head(es)[1] = n THEN <<Head(es)[2]>> \o EdgesOf(Tail(es), n)
    ELSE EdgesOf(Tail(es), n)

S == [info |-> info, heap |-> heap, maxCost |-> maxCost, pc |-> pc,
      current |-> current, pending |-> pending, result |-> result,
      calls |-> calls]
G == [nbrs |-> nbrs, start |-> start, end |-> end]

SetSearch(T) ==
    /\ info' = T.info
    /\ heap' = T.heap
    /\ maxCost' = T.maxCost
    /\ pc' = T.pc
    /\ current' = T.current
    /\ pending' = T.pending
    /\ result' = T.result
    /\ calls' = T.calls
    /\ UNCHANGED graphVars

Set(T) == SetSearch(T) /\ UNCHANGED first

\* newState (astar.go:40-46), before FindPath has done anything
InitSearch ==
    /\ info = << >>
    /\ heap = << >>
    /\ maxCost = Inf
    /\ pc = "init"
    /\ current = << >>
    /\ pending = << >>
    /\ result = [path |-> << >>, err |-> NoErr]
    /\ calls = << >>

RECURSIVE ReachSet(_, _)
\* the nodes the edges of es lead to from the nodes of R, R included
ReachSet(es, R) ==
    LET R2 == R \cup {es[i][2].Node : i \in {j \in 1..Len(es) : es[j][1] \in R}}
    IN  IF R2 = R THEN R ELSE ReachSet(es, R2)

\* The calls FindPath(mp, start, end) of the model.  The driver reads a node id
\* only to compare it with another id, to look it up in state.info and to
\* compare it with the parent -1 of the start record, so the ids other than
\* -1 can be renamed: start is -1 or 0, and end is -1, start or the first id
\* that is neither.  Every edge leaves a node that can be reached from start
\* and is not end: Neighbors is never asked for the others.
Init ==
    /\ start \in {NoParent, 0}
    /\ end \in {NoParent, 0, 1}
    /\ start = NoParent => end # 1
    /\ \E es \in EdgeLists :
         /\ \A i \in 1..Len(es) : es[i][1] # end /\ es[i][1] \in ReachSet(es, {start})
         /\ nbrs = [n \in Nodes |-> EdgesOf(es, n)]
    /\ hasDebug \in BOOLEAN
    /\ hasPP \in BOOLEAN
    /\ InitSearch
    /\ first = << >>

Start == pc = "init" /\ \E ok \in BOOLEAN, h \in HCosts : Set(StartStep(S, G, ok, h))

Pop == pc = "loop" /\ \E ok \in BOOLEAN : Set(PopStep(S, G, hasDebug, ok))

Edge == pc = "edges" /\ \E ok \in BOOLEAN, h \in HCosts : Set(EdgeStep(S, G, hasPP, ok, h))

Next == Start \/ Pop \/ Edge

Spec == Init /\ [][Next]_vars

\* ------------------------------------------------- the graph, as it is
Range(f) == {f[i] : i \in DOMAIN f}

Min(Q) == CHOOSE x \in Q : \A y \in Q : x <= y

RECURSIVE Walks(_, _, _)
\* the costs of the walks of at most k edges from u to v
Walks(u, v, k) ==
    (IF u = v THEN {0} ELSE {}) \cup
    (IF k = 0 THEN {}
     ELSE UNION {{e.Cost + d : d \in Walks(e.Node, v, k - 1)} : e \in Range(nbrs[u])})

\* a shortest path visits no node twice
HasPath(u, v) == Walks(u, v, Cardinality(Nodes) - 1) # {}
Dist(u, v) == Min(Walks(u, v, Cardinality(Nodes) - 1))

HasEdge(a, b) == \E e \in Range(nbrs[a]) : e.Node = b
\* the cost of the cheapest edge Neighbors(a) reports to b
EdgeCost(a, b) == Min({e.Cost : e \in {x \in Range(nbrs[a]) : x.Node = b}})

IsPath(p) == \A i \in 1..(Len(p) - 1) : HasEdge(p[i], p[i + 1])

RECURSIVE PathCost(_)
PathCost(p) ==
    IF Len(p) <= 1 THEN 0 ELSE EdgeCost(p[1], p[2]) + PathCost(Tail(p))

\* the id -1 is not a node of the graph, nor start, nor end
OrdinaryIds ==
    /\ start # NoParent
    /\ end # NoParent
    /\ \A n \in Nodes : \A e \in Range(nbrs[n]) : e.Node # NoParent

\* --------------------------------------------------- the calls made so far
CallsOf(op) == {i \in 1..Len(calls) : calls[i].op = op}
NoGraphFailure == \A i \in 1..Len(calls) : calls[i].err = NoErr
Returned == pc = "done"
ReturnedPath == pc = "done" /\ result.err = NoErr

\* the nodes whose heuristic the graph was asked for, and what it answered
HAsked == {calls[i].node : i \in {j \in CallsOf("HeuristicCost") : calls[j].err = NoErr}}
HVal(n) == calls[CHOOSE i \in CallsOf("HeuristicCost") : calls[i].node = n].pcost

\* The answers are those of a heuristic that never overestimates the cost to
\* end, and that is consistent: h(u) <= d(u, v) + h(v).  (Answers that satisfy
\* both extend to such a heuristic on all nodes, by
\* h(x) = min(d(x, end), min over the asked v of d(x, v) + h(v)).)
Admissible == \A n \in HAsked : HasPath(n, end) => HVal(n) <= Dist(n, end)
Consistent ==
    \A u \in HAsked : \A v \in HAsked : HasPath(u, v) => HVal(u) <= Dist(u, v) + HVal(v)

\* ------------------------------------------------------------------ claims

\* C1: whenever FindPath returns a path on a graph with an admissible,
\* consistent heuristic, the cost of the path is the cost of a shortest path
\* from start to end.
C1_Optimality ==
    (ReturnedPath /\ Admissible /\ Consistent) =>
        /\ IsPath(result.path)
        /\ PathCost(result.path) = Dist(start, end)

\* C1 on the graphs in which the id -1 does not occur
C1_Optimality_OrdinaryIds == OrdinaryIds => C1_Optimality

\* C2: when no call of the graph fails, FindPath returns ErrImpossible if
\* there is no path from start to end, and returns a path if there is one.
C2_Reachability ==
    (pc \in {"done", "hang"} /\ NoGraphFailure) =>
        /\ pc = "done"
        /\ result.err = (IF HasPath(start, end) THEN NoErr ELSE ErrImpossible)
        /\ (result.err = NoErr) = (result.path # <<>>)

\* C2 on the graphs in which the id -1 does not occur
C2_Reachability_OrdinaryIds == OrdinaryIds => C2_Reachability

\* C3: a path FindPath returns has at least one element, begins with start,
\* ends with end, and each of its nodes is followed by a node that Neighbors
\* reports for it.
C3_PathValid ==
    ReturnedPath =>
        /\ Len(result.path) >= 1
        /\ result.path[1] = start
        /\ result.path[Len(result.path)] = end
        /\ IsPath(result.path)

\* a path of three nodes was returned
C3_Witness == ReturnedPath /\ Len(result.path) >= 3

\* the calls a step adds to calls
NewCalls == SubSeq(calls', Len(calls) + 1, Len(calls'))
Last(q) == q[Len(q)]

\* C4: a call of the graph that returns an error is the last call FindPath
\* makes, and FindPath returns no path and that error.
C4_GraphFailureAborts ==
    \A i \in 1..Len(calls) :
        calls[i].err # NoErr =>
            /\ i = Len(calls)
            /\ pc = "done"
            /\ result = [path |-> <<>>, err |-> calls[i].err]

\* Neighbors failed for a node other than start, after a PossiblePath call
C4_Witness ==
    /\ calls # <<>>
    /\ Last(calls).op = "Neighbors"
    /\ Last(calls).err # NoErr
    /\ Last(calls).node # start
    /\ CallsOf("PossiblePath") # {}

\* C5: the first call is HeuristicCost(start, end); if it fails FindPath
\* returns its error and no path, makes no other call and creates no record
\* and no open-list entry.
C5_FirstHeuristicFails ==
    calls # <<>> =>
        /\ calls[1].op = "HeuristicCost" /\ calls[1].node = start
        /\ calls[1].err # NoErr =>
              /\ pc = "done"
              /\ result = [path |-> <<>>, err |-> calls[1].err]
              /\ Len(calls) = 1
              /\ info = <<>>
              /\ heap = <<>>

\* the first call failed on a graph in which start has neighbours
C5_Witness ==
    /\ calls # <<>>
    /\ calls[1].err # NoErr
    /\ start # end
    /\ nbrs[start] # <<>>

\* C6: when start = end and HeuristicCost(start, end) does not fail, FindPath
\* returns the path <<start>> and no error after that one call.
C6_Degenerate ==
    (start = end /\ current # <<>>) =>
        /\ pc = "done"
        /\ result = [path |-> <<start>>, err |-> NoErr]
        /\ Len(calls) = 1

\* C6 on the graphs in which the id -1 does not occur
C6_Degenerate_OrdinaryIds == OrdinaryIds => C6_Degenerate

\* C7 as stated: of two PossiblePath calls, the later one never has the
\* higher cost.
C7_NeverWorse ==
    \A i \in CallsOf("PossiblePath") : \A j \in CallsOf("PossiblePath") :
        i < j => calls[j].cost <= calls[i].cost

\* C7, amended: every path notified ends in end, and after every PossiblePath
\* call the lowest cost notified so far is the cost of the record of end (and
\* the value of maxCost): the best route notified never gets worse, while one
\* call may carry a higher cost than an earlier one.
C7_BestNeverWorse ==
    [][(NewCalls # <<>> /\ Last(NewCalls).op = "PossiblePath") =>
          LET notified == {calls'[i].cost : i \in {j \in 1..Len(calls') : calls'[j].op = "PossiblePath"}}
          IN  /\ Last(Last(NewCalls).path) = end
              /\ Min(notified) = info'[end].cost
              /\ maxCost' = <<info'[end].cost>>]_vars

\* a later PossiblePath call had a higher cost than an earlier one, for a
\* route that reaches end from another node
C7_Witness ==
    \E i \in CallsOf("PossiblePath") : \E j \in CallsOf("PossiblePath") :
        /\ i < j
        /\ calls[j].cost > calls[i].cost
        /\ calls[j].path[Len(calls[j].path) - 1] # calls[i].path[Len(calls[i].path) - 1]

\* C8: an iteration of the inner loop that examines (does not skip) an edge
\* to end on a graph that implements PossiblePath, and is not cut short by an
\* error of HeuristicCost, calls PossiblePath once, with a path from start to
\* end whose last node but one is the node being expanded.
C8_NotifiedForEveryRoute ==
    [][(/\ pc = "edges"
        /\ hasPP
        /\ Head(pending).Node = end
        /\ Head(pending).Node # info[current[1]].parent
        /\ calls' # <<>> /\ Last(calls').err = NoErr) =>
          LET pps == SelectSeq(NewCalls, LAMBDA c : c.op = "PossiblePath")
          IN  /\ Len(pps) = 1
              /\ Len(pps[1].path) >= 2
              /\ pps[1].path[1] = start
              /\ Last(pps[1].path) = end
              /\ pps[1].path[Len(pps[1].path) - 1] = current[1]]_vars

\* C8 on the graphs in which the id -1 does not occur
C8_NotifiedForEveryRoute_OrdinaryIds ==
    [][OrdinaryIds => 
        ((/\ pc = "edges"
          /\ hasPP
          /\ Head(pending).Node = end
          /\ Head(pending).Node # info[current[1]].parent
          /\ calls' # <<>> /\ Last(calls').err = NoErr) =>
            LET pps == SelectSeq(NewCalls, LAMBDA c : c.op = "PossiblePath")
            IN  /\ Len(pps) = 1
                /\ Len(pps[1].path) >= 2
                /\ pps[1].path[1] = start
                /\ Last(pps[1].path) = end
                /\ pps[1].path[Len(pps[1].path) - 1] = current[1])]_vars

\* C9: the calls of a step that calls Neighbors or VisitedNode are, on a
\* graph that implements Debug, VisitedNode and then Neighbors (Neighbors
\* alone on the others), both for the node just popped, which is not end and
\* whose cost is below maxCost; VisitedNode gets the parent, cost and
\* predictedCost of the record of that node.
C9_DebugOrdering ==
    [][(\E i \in 1..Len(NewCalls) : NewCalls[i].op \in {"Neighbors", "VisitedNode"}) =>
          LET n == current'[1]
              ni == info'[n]
          IN  /\ pc = "loop"
              /\ n # end
              /\ F32Less(ni.cost, maxCost)
              /\ Last(NewCalls).op = "Neighbors" /\ Last(NewCalls).node = n
              /\ IF hasDebug
                 THEN /\ Len(NewCalls) = 2
                      /\ NewCalls[1].op = "VisitedNode"
                      /\ NewCalls[1].node = n
                      /\ NewCalls[1].parent = ni.parent
                      /\ NewCalls[1].cost = ni.cost
                      /\ NewCalls[1].pcost = ni.predictedCost
                 ELSE Len(NewCalls) = 1]_vars

\* VisitedNode was called, and a popped node other than end was skipped: it
\* has no Neighbors call
C9_Witness ==
    /\ CallsOf("VisitedNode") # {}
    /\ \E n \in DOMAIN info :
          /\ info[n].index = NoIndex
          /\ n # end
          /\ \A i \in CallsOf("Neighbors") : calls[i].node # n

\* the step FindPath takes from the state T
StepOf(T, dbg, pp, ok, h) ==
    CASE T.pc = "init" -> StartStep(T, G, ok, h)
      [] T.pc = "loop" -> PopStep(T, G, dbg, ok)
      [] T.pc = "edges" -> EdgeStep(T, G, pp, ok, h)
      [] OTHER -> T

\* T without the calls of the hooks
Unhooked(T) ==
    [T EXCEPT !.calls = SelectSeq(T.calls, LAMBDA c : c.op \in {"Neighbors", "HeuristicCost"})]

\* C10: from every state, the step of the driver on the graph and its step
\* on the same graph with neither hook end in the same state, the calls of
\* the hooks left aside.  (By induction the two runs make the same Neighbors
\* and HeuristicCost calls, go through the same records and open lists and
\* return the same result.)
C10_HooksPureObservation ==
    \A ok \in BOOLEAN : \A h \in HCosts :
        Unhooked(StepOf(S, hasDebug, hasPP, ok, h)) = Unhooked(StepOf(S, FALSE, FALSE, ok, h))

\* C10 on the graphs in which the id -1 does not occur
C10_HooksPureObservation_OrdinaryIds == OrdinaryIds => C10_HooksPureObservation

\* ------------------------------------------------------------ termination
RECURSIVE Sum(_, _)
\* the sum of f over the finite set Q
Sum(f, Q) ==
    IF Q = {} THEN 0
    ELSE LET x == CHOOSE y \in Q : TRUE IN f[x] + Sum(f, Q \ {x})

\* the number of edges the graph reports in all
NumEdges == Sum([n \in Nodes |-> Len(nbrs[n])], Nodes)

\* The calls FindPath(mp, start, end) of FairSpec: those of Init on the
\* graphs of at most MaxEdges - 1 edges that do not implement Debug (its
\* VisitedNode is called between the test of maxCost and Neighbors and
\* changes nothing the driver reads).
InitFair == Init /\ NumEdges < MaxEdges /\ ~hasDebug

\* FindPath is sequential code: while a call of the graph returns, the driver
\* takes its next step.  In a state with pc = "hang" the loop of pathToNode
\* runs for ever and FindPath has no next step.
FairSpec == InitFair /\ [][Next]_vars /\ WF_vars(Next)

\* C11: on every graph (all are finite, with costs >= 0) and with any
\* heuristic values, FindPath returns: a path, ErrImpossible or the error of
\* the graph.
C11_Termination == <>(pc = "done")

\* a cost above that of every record: no record costs more than MaxEdges edges
TopCost == MaxCost * MaxEdges + 1
\* What the steps of the driver use up: the costs of the records (TopCost for
\* a node without record), then the heap, then the edges of the inner loop.
RankCost == Sum([n \in Nodes |-> IF n \in DOMAIN info THEN info[n].cost ELSE TopCost], Nodes)
\* C11 by steps, under Spec: on the graphs in which the id -1 does not occur
\* no step ends in the loop of pathToNode, and every step that does not return
\* lowers <<RankCost, Len(heap), Len(pending)>> in the lexicographic order, so
\* FindPath returns after finitely many pops.
C11_StepsUseUp_OrdinaryIds ==
    [][OrdinaryIds =>
         /\ pc' # "hang"
         /\ pc' # "done" =>
               \/ RankCost' < RankCost
               \/ RankCost' = RankCost /\ Len(heap') < Len(heap)
               \/ RankCost' = RankCost /\ Len(heap') = Len(heap)
                    /\ Len(pending') < Len(pending)]_vars

\* ------------------------------------------------------ a second invocation
\* newState with maxCost kept from the call before, as a variable of the
\* package would be
newState_KeepMaxCost(T) == [T EXCEPT !.info = << >>, !.heap = << >>]

\* newState (astar.go:40-46): an empty map, an empty heap, maxCost +Inf
newState(T) == [T EXCEPT !.info = << >>, !.heap = << >>, !.maxCost = Inf]

\* The beginning of another call FindPath(mp, start, end): what a call works
\* on is the state it makes with newState and its own local variables.
FindPathAgain(T) ==
    [newState(T) EXCEPT !.pc = "init", !.current = << >>, !.pending = << >>,
                        !.result = [path |-> << >>, err |-> NoErr],
                        !.calls = << >>]

\* FindPath has returned; it is called again with the same arguments
Again ==
    /\ pc = "done"
    /\ first = << >>
    /\ first' = <<[result |-> result, calls |-> calls]>>
    /\ SetSearch(FindPathAgain(S))

\* The graph is the same in the second call: a call with the method and the
\* node of the call the first invocation made at the same place gets the
\* error and the heuristic value that call got.
SameGraph ==
    first # << >> =>
        \A i \in 1..Len(calls) :
            (/\ i <= Len(first[1].calls)
             /\ calls[i].op = first[1].calls[i].op
             /\ calls[i].node = first[1].calls[i].node)
            => /\ calls[i].err = first[1].calls[i].err
               /\ calls[i].pcost = first[1].calls[i].pcost

TwiceNext == (Next /\ SameGraph') \/ Again

\* The graphs of TwiceSpec are those of Init that do not implement Debug.
InitTwice == Init /\ ~hasDebug

\* one call of FindPath and, when it has returned, a second one
TwiceSpec == InitTwice /\ [][TwiceNext]_vars

Exchange(a, b) == [n \in Nodes |-> IF n = a THEN b ELSE IF n = b THEN a ELSE n]

RelabelEdges(r, es) == [i \in DOMAIN es |-> [Node |-> r[es[i].Node], Cost |-> es[i].Cost]]

\* the graph Gr with every node n renamed r[n], and the arguments of FindPath
RelabelGraph(r, Gr) ==
    [nbrs |-> [n \in Nodes |-> RelabelEdges(r, Gr.nbrs[r[n]])],
     start |-> r[Gr.start], end |-> r[Gr.end]]

\* an error with the node of the failing call renamed
RelabelErr(r, err) ==
    IF err = NoErr \/ err = ErrImpossible THEN err ELSE GraphErr(err[1], r[err[2]])

\* The state T of a search on Gr with every node renamed.  The parent of the
\* start record is no node: it is the mark FindPath gave it (astar.go:138).
\* The calls made are left out.
RelabelState(r, T, Gr) ==
    [info |-> [n \in {r[m] : m \in DOMAIN T.info} |->
                 LET rec == T.info[r[n]]
                 IN  [rec EXCEPT !.node = n,
                                 !.parent = IF r[n] = Gr.start THEN rec.parent
                                            ELSE r[rec.parent]]],
     heap |-> [i \in DOMAIN T.heap |-> r[T.heap[i]]],
     maxCost |-> T.maxCost,
     pc |-> T.pc,
     current |-> [i \in DOMAIN T.current |-> r[T.current[i]]],
     pending |-> RelabelEdges(r, T.pending),
     result |-> [path |-> [i \in DOMAIN T.result.path |-> r[T.result.path[i]]],
                 err |-> RelabelErr(r, T.result.err)],
     calls |-> << >>]

\* the step FindPath takes from the state T of a search on the graph Gr
StepOn(T, Gr, dbg, pp, ok, h) ==
    CASE T.pc = "init" -> StartStep(T, Gr, ok, h)
      [] T.pc = "loop" -> PopStep(T, Gr, dbg, ok)
      [] T.pc = "edges" -> EdgeStep(T, Gr, pp, ok, h)
      [] OTHER -> T

\* the step from T on Gr commutes with the relabelling r
Commutes(r, T, Gr) ==
    \A ok \in BOOLEAN : \A h \in HCosts :
        [StepOn(RelabelState(r, T, Gr), RelabelGraph(r, Gr), hasDebug, hasPP, ok, h)
            EXCEPT !.calls = << >>]
        = RelabelState(r, StepOn(T, Gr, hasDebug, hasPP, ok, h), Gr)

\* C13: for every relabelling r of the ids, -1 included, the search on the
\* relabelled graph from r(start) to r(end) goes as the search on the graph
\* does: from every state the driver reaches, its step on the relabelled
\* state is the relabelled step.  (By induction the relabelled run returns
\* the same error, or the image under r of the path.)
C13_OpaqueIds ==
    \A a \in Nodes : \A b \in Nodes : Commutes(Exchange(a, b), S, G)

\* C13 for the relabellings of the ids other than -1, on the graphs in which
\* the id -1 does not occur
C13_OpaqueIds_OrdinaryIds ==
    OrdinaryIds =>
        \A a \in Nodes \ {NoParent} : \A b \in Nodes \ {NoParent} :
            Commutes(Exchange(a, b), S, G)

\* --------------------------------------------------------------- reopening
\* C14: whenever FindPath returns a path on a graph with a heuristic that
\* never overestimates the cost to end (consistent or not), the cost of the
\* path is the cost of a shortest path from start to end.
C14_ReopenOptimal ==
    (ReturnedPath /\ Admissible) =>
        /\ IsPath(result.path)
        /\ PathCost(result.path) = Dist(start, end)

\* C14 on the graphs in which the id -1 does not occur
C14_ReopenOptimal_OrdinaryIds == OrdinaryIds => C14_ReopenOptimal

\* C14, the re-insertion: a step that lowers the cost of a record that is not
\* in the heap puts the record into the heap.
C14_Reinserted ==
    [][\A n \in DOMAIN info :
          (info[n].index = NoIndex /\ info'[n].cost < info[n].cost) =>
              /\ info'[n].index # NoIndex
              /\ heap'[info'[n].index + 1] = n]_vars

\* a node that was expanded is in the heap again
C14_ReinsertedWitness ==
    \E n \in DOMAIN info :
        /\ info[n].index # NoIndex
        /\ \E i \in CallsOf("Neighbors") : calls[i].node = n

\* ------------------------------------------------------ the heap by itself
\* What FindPath does with the heap, with any nodes and any costs: it adds
\* the record of a node that has none (astar.go:136-141, 175-187), lowers the
\* cost of a record and then updates it in the heap or adds it again
\* (astar.go:188-198), and pops (astar.go:145).
HeapInit ==
    /\ nbrs = [n \in Nodes |-> << >>]
    /\ hasDebug = FALSE
    /\ hasPP = FALSE
    /\ start = 0
    /\ end = 0
    /\ InitSearch
    /\ first = << >>

HeapUnchanged == UNCHANGED <<graphVars, maxCost, pc, pending, result, calls, first>>

HeapAdd ==
    \E n \in Nodes \ DOMAIN info : \E g \in Costs : \E h \in HCosts :
        LET a == addNodeInfo([info |-> info, heap |-> heap],
                             [node |-> n, parent |-> NoParent, index |-> NoIndex,
                              cost |-> F32(g), predictedCost |-> F32(h)])
        IN  /\ info' = a.info
            /\ heap' = a.heap
            /\ UNCHANGED current
            /\ HeapUnchanged

HeapRelax ==
    \E n \in DOMAIN info : \E g \in Costs :
        /\ g < info[n].cost
        /\ LET upd == [info EXCEPT ![n].cost = g]
                a == IF upd[n].index >= 0
                     THEN updateNodeInfo([info |-> upd, heap |-> heap], n)
                     ELSE addNodeInfo([info |-> upd, heap |-> heap], upd[n])
           IN  /\ info' = a.info
               /\ heap' = a.heap
               /\ UNCHANGED current
               /\ HeapUnchanged

HeapPop ==
    /\ heap # << >>
    /\ LET p == popBest([info |-> info, heap |-> heap])
       IN  /\ info' = p.info
           /\ heap' = p.heap
           /\ current' = <<p.node>>
           /\ HeapUnchanged

HeapNext == HeapAdd \/ HeapRelax \/ HeapPop

HeapSpec == HeapInit /\ [][HeapNext]_vars

\* f = g + h, as less computes it
F(rec) == F32Add(rec.cost, rec.predictedCost)

\* every slot i > 0 holds a record whose f is not below that of slot (i-1)/2
HeapOrdered ==
    \A i \in 1..(Len(heap) - 1) :
        F(info[heap[i + 1]]) >= F(info[heap[GoDiv(i - 1, 2) + 1]])

\* C15: after every addNodeInfo, updateNodeInfo and popBest the heap is
\* ordered, and the record popBest returns has an f that is not above the f
\* of any record left in the heap.
C15_HeapOrder ==
    [][/\ HeapOrdered'
       /\ Len(heap') < Len(heap) =>
             \A i \in 1..Len(heap') : F(info'[current'[1]]) <= F(info'[heap'[i]])]_vars

\* a pop has left three records in the heap, not all of the same f
C15_Witness ==
    /\ current # << >>
    /\ Len(heap) >= 3
    /\ \E i \in 1..Len(heap) : F(info[heap[i]]) > F(info[heap[1]])

\* C16: between the steps of the driver, a record has index -1 and is in no
\* slot of the heap, or its index is that of a slot of the heap and the slot
\* holds the record; every slot i holds a record of index i, and no record is
\* in two slots.
C16_IndexConsistent ==
    /\ \A n \in DOMAIN info :
          /\ info[n].node = n
          /\ \/ /\ info[n].index = NoIndex
                /\ \A i \in 1..Len(heap) : heap[i] # n
             \/ /\ 0 <= info[n].index
                /\ info[n].index < Len(heap)
                /\ heap[info[n].index + 1] = n
    /\ \A i \in 1..Len(heap) : heap[i] \in DOMAIN info /\ info[heap[i]].index = i - 1
    /\ \A i \in 1..Len(heap) : \A j \in 1..Len(heap) : heap[i] = heap[j] => i = j

\* a record was popped and is in no slot, and two or more records are in
\* the heap
C16_Witness ==
    /\ Len(heap) >= 2
    /\ \E n \in DOMAIN info : info[n].index = NoIndex /\ info[n].cost > 0

\* the table and the heap after the cost of the record of n, which is in the
\* heap, was set to c and updateNodeInfo was called for it (astar.go:192-195)
Updated(n, c) ==
    updateNodeInfo([info |-> [info EXCEPT ![n].cost = c], heap |-> heap], n)

\* C17: updateNodeInfo for a record that is in the heap leaves the number of
\* slots, the records that are in the heap, the records of the table and the
\* node, parent, cost and predictedCost of every record as they were; the
\* indexes it changes are those of the records in the heap, and each is the
\* slot of its record.
C17_UpdateReorders ==
    \A n \in DOMAIN info : info[n].index >= 0 =>
        \A c \in Costs :
            LET a == Updated(n, c)
            IN  /\ Len(a.heap) = Len(heap)
                /\ Range(a.heap) = Range(heap)
                /\ DOMAIN a.info = DOMAIN info
                /\ \A m \in DOMAIN info :
                      /\ a.info[m].node = info[m].node
                      /\ a.info[m].parent = info[m].parent
                      /\ a.info[m].cost = (IF m = n THEN c ELSE info[m].cost)
                      /\ a.info[m].predictedCost = info[m].predictedCost
                      /\ info[m].index = NoIndex => a.info[m].index = NoIndex
                /\ \A i \in 1..Len(a.heap) : a.info[a.heap[i]].index = i - 1

\* updateNodeInfo moves a record whose cost was lowered from the last of
\* four slots to another one
C17_Witness ==
    /\ Len(heap) = Cardinality(Nodes)
    /\ \E c \in Costs :
          /\ c < info[heap[Len(heap)]].cost
          /\ Updated(heap[Len(heap)], c).heap # heap

\* ------------------------------------------------------------ the records
\* C18: a step of FindPath leaves every record in the table; it changes the
\* cost of a record only to a lower cost, changes its parent only when it
\* lowers its cost, and never changes its predictedCost.
C18_CostOnlyDecreases ==
    [][\A n \in DOMAIN info :
          /\ n \in DOMAIN info'
          /\ info'[n].cost <= info[n].cost
          /\ info'[n].parent # info[n].parent => info'[n].cost < info[n].cost
          /\ info'[n].predictedCost = info[n].predictedCost
          /\ info'[n].node = info[n].node]_vars

\* the parent of a record was expanded after the record was made: the record
\* got this parent, and a lower cost, by the branch of astar.go:188-198
C18_Witness ==
    \E n \in DOMAIN info : \E i \in CallsOf("HeuristicCost") : \E j \in CallsOf("Neighbors") :
        /\ n # start
        /\ calls[i].node = n
        /\ calls[j].node = info[n].parent
        /\ i < j

\* C19: once FindPath has asked the heuristic of start without failure, the
\* table has a start record of cost 0 and parent -1, in every state; the
\* parent of every other record is a node that has a record.
C19_ParentValid ==
    /\ (pc # "init" /\ calls[1].err = NoErr) => start \in DOMAIN info
    /\ start \in DOMAIN info =>
          /\ info[start].cost = 0
          /\ info[start].parent = NoParent
    /\ \A n \in DOMAIN info : n # start => info[n].parent \in DOMAIN info

\* a node whose parent is not start was expanded and has an edge to start
C19_Witness ==
    \E n \in DOMAIN info :
        /\ n # start
        /\ info[n].parent # start
        /\ HasEdge(n, start)
        /\ \E i \in CallsOf("Neighbors") : calls[i].node = n
        /\ pc = "loop"

\* C20: in every state, the loop of pathToNode from any record visits no
\* node twice and ends at the start record, whose parent has no record; end
\* is the parent of no record.
C20_ParentTree ==
    /\ \A n \in DOMAIN info :
          /\ ~pathToNode(info, n).loops
          /\ pathToNode(info, n).path[1] = start
          /\ info[n].parent # end
    /\ start \in DOMAIN info => info[start].parent \notin DOMAIN info

\* C20 on the graphs in which the id -1 does not occur
C20_ParentTree_OrdinaryIds == OrdinaryIds => C20_ParentTree

\* ------------------------------------------------------------ large costs
\* Edge.Cost is a float64 (iface.go:13); the driver converts it to float32
\* and adds in float32 (astar.go:172).  BigCost is the least whole cost that
\* float32 does not hold.
BigCost == F32Exact + 1

\* the edges es with BigCost for the cost MaxCost
Big(es) ==
    [i \in DOMAIN es |->
        [Node |-> es[i].Node,
         Cost |-> IF es[i].Cost = MaxCost THEN BigCost ELSE es[i].Cost]]

\* the calls FindPath(mp, start, end) of Init, on the graphs whose edges cost
\* BigCost where those of Init cost MaxCost
InitBig ==
    /\ start \in {NoParent, 0}
    /\ end \in {NoParent, 0, 1}
    /\ start = NoParent => end # 1
    /\ \E es \in EdgeLists :
         /\ \A i \in 1..Len(es) : es[i][1] # end /\ es[i][1] \in ReachSet(es, {start})
         /\ nbrs = [n \in Nodes |-> Big(EdgesOf(es, n))]
    /\ hasDebug \in BOOLEAN
    /\ hasPP \in BOOLEAN
    /\ InitSearch
    /\ first = << >>

BigSpec == InitBig /\ [][Next]_vars

\* every sum of edge costs of the graph is a number float32 holds
ExactCosts == \A n \in DOMAIN nbrs : \A e \in Range(nbrs[n]) : e.Cost < BigCost

\* C21 as stated: for every record n other than start, Neighbors(parent(n))
\* reports an edge to n of a cost c with g(n) >= g(parent(n)) + c, and g(n)
\* is not below the cost of a shortest path from start to n.
C21_Relaxation ==
    \A n \in DOMAIN info \ {start} :
        /\ \E e \in Range(nbrs[info[n].parent]) :
              /\ e.Node = n
              /\ info[n].cost >= info[info[n].parent].cost + e.Cost
        /\ HasPath(start, n)
        /\ info[n].cost >= Dist(start, n)

\* the record of n, other than start, is as an edge from its parent makes
\* it, in float32: g(n) >= float32(g(parent(n)) + float32(c))
RelaxedF32(inf, n) ==
    \E e \in Range(nbrs[inf[n].parent]) :
        /\ e.Node = n
        /\ inf[n].cost >= F32(inf[inf[n].parent].cost + F32(e.Cost))

\* C21, amended: after every step and for every record n other than start,
\* Neighbors(parent(n)) reports an edge to n of a cost c with
\* g(n) >= float32(g(parent(n)) + float32(c)), with equality for some such
\* edge in the step that makes the record or changes its parent or cost;
\* there is a path from start to n; and g(n) is not below the cost of a
\* shortest path from start to n when float32 holds every sum of edge costs.
C21_RelaxationF32 ==
    [][\A n \in DOMAIN info' \ {start} :
          /\ RelaxedF32(info', n)
          /\ HasPath(start, n)
          /\ ExactCosts => info'[n].cost >= Dist(start, n)
          /\ (\/ n \notin DOMAIN info
              \/ info'[n].cost # info[n].cost
              \/ info'[n].parent # info[n].parent)
             => \E e \in Range(nbrs[info'[n].parent]) :
                   /\ e.Node = n
                   /\ info'[n].cost
                        = F32(info'[info'[n].parent].cost + F32(e.Cost))]_vars

\* a record reached over two edges has a cost float32 rounded: it is below
\* the cost of its parent plus the cost of any edge from the parent
C21_Witness ==
    \E n \in DOMAIN info \ {start} :
        /\ info[n].parent # start
        /\ \A e \in Range(nbrs[info[n].parent]) :
              e.Node = n => info[n].cost < info[info[n].parent].cost + e.Cost

\* ------------------------------------------------------ calls of the graph
\* C22: HeuristicCost is called at most once for a node: first for start,
\* then for a node that has no record; the predictedCost of a record is, in
\* every state, the value that call returned, and every record has its call.
C22_HeuristicOnce ==
    /\ \A i \in CallsOf("HeuristicCost") : \A j \in CallsOf("HeuristicCost") :
          calls[i].node = calls[j].node => i = j
    /\ calls # << >> => calls[1].op = "HeuristicCost" /\ calls[1].node = start
    /\ \A i \in CallsOf("HeuristicCost") :
          /\ calls[i].err = NoErr =>
                /\ calls[i].node \in DOMAIN info
                /\ info[calls[i].node].predictedCost = F32(calls[i].pcost)
    /\ \A n \in DOMAIN info : \E i \in CallsOf("HeuristicCost") : calls[i].node = n

\* C22, the steps: a step that asks HeuristicCost asks it for a node that has
\* no record, and no step changes the predictedCost of a record.
C22_AskedAtDiscovery ==
    [][/\ \A i \in (Len(calls) + 1)..Len(calls') :
             calls'[i].op = "HeuristicCost" => calls'[i].node \notin DOMAIN info
       /\ \A n \in DOMAIN info :
             n \in DOMAIN info' /\ info'[n].predictedCost = info[n].predictedCost]_vars

\* a record with a predictedCost above 0 got a lower cost and another
\* parent after it was made: its parent was expanded after its HeuristicCost
\* call
C22_Witness ==
    \E n \in DOMAIN info : \E i \in CallsOf("HeuristicCost") : \E j \in CallsOf("Neighbors") :
        /\ n # start
        /\ info[n].predictedCost > 0
        /\ calls[i].node = n
        /\ calls[j].node = info[n].parent
        /\ i < j

\* C23 as stated: Neighbors is called at most once for a node.
C23_NeighborsOnce ==
    \A i \in CallsOf("Neighbors") : \A j \in CallsOf("Neighbors") :
        calls[i].node = calls[j].node => i = j

\* C23, amended: a step calls Neighbors at most once, and calls it for the
\* node it pops, which was in the heap before the step and is not after it
\* (a node is popped once for every time it was put into the heap, and it is
\* put there again when its cost is lowered after a pop).
C23_NeighborsOncePerPop ==
    [][\A i \in (Len(calls) + 1)..Len(calls') :
          calls'[i].op = "Neighbors" =>
              /\ i = Len(calls')
              /\ Len(calls') <= Len(calls) + 2
              /\ current' = <<calls'[i].node>>
              /\ info[calls'[i].node].index # NoIndex
              /\ info'[calls'[i].node].index = NoIndex
              /\ Len(heap') = Len(heap) - 1]_vars

\* Neighbors was called twice for a node
C23_Witness ==
    \E i \in CallsOf("Neighbors") : \E j \in CallsOf("Neighbors") :
        i < j /\ calls[i].node = calls[j].node


\* ------------------------------------------------------ the parent skip
\* the nodes of the graph, start and every node an edge leads to, have ids
\* >= 0 (end can be an id that is no node of the graph)
GraphIdsOrdinary ==
    /\ start # NoParent
    /\ \A n \in Nodes : \A e \in Range(nbrs[n]) : e.Node # NoParent

\* C24: on a graph whose ids are all >= 0, skipping the edge that leads to the
\* parent of the expanded node changes nothing: from every reachable state in
\* which an edge is to be examined, the driver's step and the step that
\* treats the edge like any other (Relax) give the same records, open set,
\* bound, calls and result, whatever HeuristicCost would answer.  The driver
\* and the one without the skip then go through the same states from the
\* same start, one step at a time.
C24_SkipPreserves ==
    (GraphIdsOrdinary /\ pc = "edges") =>
        \A ok \in BOOLEAN : \A h \in HCosts :
            EdgeStep(S, G, hasPP, ok, h) = Relax(S, G, hasPP, ok, h)

\* an edge to the parent of the expanded node is about to be examined, the
\* parent is not start, and the edge costs less than the parent's g
C24_Witness ==
    /\ GraphIdsOrdinary
    /\ pc = "edges"
    /\ Head(pending).Node = info[current[1]].parent
    /\ info[current[1]].parent # start
    /\ Head(pending).Cost < info[info[current[1]].parent].cost

\* ------------------------------------------------------ the pruning bound
\* the next pop takes node n, which is not end and whose g exceeds maxCost
PopsBeyondBound(n) ==
    /\ pc = "loop"
    /\ heap # << >>
    /\ heap[1] = n
    /\ n # end
    /\ maxCost # Inf
    /\ info[n].cost > maxCost[1]

\* C25: a pop of a node that is not end and whose g exceeds maxCost makes no
\* call (no VisitedNode, no Neighbors, and no HeuristicCost or PossiblePath of
\* a relaxation), examines no edge, and changes no record's g, h or parent,
\* the bound or the result; the node's record stays in the table, out of the
\* heap with index -1.  A record that is out of the heap, pruned or expanded,
\* is put into the heap again by a step that lowers its cost.
C25_Pruning ==
    [][/\ \A n \in DOMAIN info :
             PopsBeyondBound(n) =>
                 /\ calls' = calls
                 /\ pc' = "loop"
                 /\ pending' = << >>
                 /\ maxCost' = maxCost
                 /\ result' = result
                 /\ DOMAIN info' = DOMAIN info
                 /\ info'[n] = [info[n] EXCEPT !.index = NoIndex]
                 /\ \A i \in 1..Len(heap') : heap'[i] # n
                 /\ \A m \in DOMAIN info :
                        /\ info'[m].cost = info[m].cost
                        /\ info'[m].predictedCost = info[m].predictedCost
                        /\ info'[m].parent = info[m].parent
       /\ \A n \in DOMAIN info :
             (n \in DOMAIN info' /\ info[n].index = NoIndex
                  /\ info'[n].cost < info[n].cost) =>
                 \E i \in 1..Len(heap') : heap'[i] = n /\ info'[n].index = i - 1]_vars

\* a node that is not end was popped with a g above the bound: it is the
\* current node, out of the heap, and nothing was asked about it
C25_Witness ==
    /\ pc = "loop"
    /\ current # << >>
    /\ current[1] # end
    /\ maxCost # Inf
    /\ info[current[1]].cost > maxCost[1]
    /\ info[current[1]].index = NoIndex
    /\ \A i \in CallsOf("Neighbors") : calls[i].node # current[1]

\* maxCost is +Inf while end has no record of its own (none at all, or the
\* start record), and the g of end's record otherwise
BoundIsGoalCost ==
    IF end = start \/ end \notin DOMAIN info
    THEN maxCost = Inf
    ELSE maxCost = <<info[end].cost>>

\* C26: in every state of a search, before and after every step, maxCost is
\* +Inf if end has no record other than the start record and the g of end's
\* record otherwise; and no step increases maxCost.
C26_BoundTracksGoal ==
    [][/\ BoundIsGoalCost
       /\ BoundIsGoalCost'
       /\ maxCost # Inf => (maxCost' # Inf /\ maxCost'[1] <= maxCost[1])]_vars

\* end was discovered through an edge and its g was lowered afterwards: the
\* bound is below the cost notified at the discovery
C26_Witness ==
    /\ maxCost # Inf
    /\ end \in DOMAIN info
    /\ CallsOf("PossiblePath") # {}
    /\ calls[Min(CallsOf("PossiblePath"))].cost > maxCost[1]

\* ------------------------------------------------ large predicted costs
\* HeuristicCost returns a float64 (iface.go:20) that the driver converts to
\* float32 (astar.go:140, 185); less adds cost and predictedCost in float32
\* (astar.go:48-52).  HugeH is a predicted cost so large that the sum rounds
\* to the predicted cost for every cost below 32: records then rank equal
\* whatever their cost, and the heap pops them in the order of its slots.
HugeH == F32Exact * 32
TieHCosts == {0, HugeH}

\* the graph 0 -> 2, 0 -> 3, 2 -> 4, 3 -> 2, 4 -> 1 with the costs c, the
\* edges of node 0 in either order
TieGraph(c, swapped) ==
    LET e2 == [Node |-> 2, Cost |-> c[1]]
        e3 == [Node |-> 3, Cost |-> c[2]]
    IN  0 :> (IF swapped THEN <<e3, e2>> ELSE <<e2, e3>>)
        @@ 1 :> << >>
        @@ 2 :> <<[Node |-> 4, Cost |-> c[3]]>>
        @@ 3 :> <<[Node |-> 2, Cost |-> c[4]]>>
        @@ 4 :> <<[Node |-> 1, Cost |-> c[5]]>>

TieGraphs == {TieGraph(c, swapped) : c \in [1..5 -> Costs], swapped \in BOOLEAN}

\* FindPath(mp, 0, 1) on the graphs of TieGraphs
InitTie ==
    /\ start = 0
    /\ end = 1
    /\ nbrs \in TieGraphs
    /\ hasDebug \in BOOLEAN
    /\ hasPP \in BOOLEAN
    /\ InitSearch
    /\ first = << >>

TieStart == pc = "init" /\ \E ok \in BOOLEAN, h \in TieHCosts : Set(StartStep(S, G, ok, h))

TieEdge == pc = "edges" /\ \E ok \in BOOLEAN, h \in TieHCosts : Set(EdgeStep(S, G, hasPP, ok, h))

TieNext == TieStart \/ Pop \/ TieEdge

TieSpec == InitTie /\ [][TieNext]_vars

\* ------------------------------------------------- the cost of a notification
\* Neighbors reports at most one edge from a node to another
OneEdgePerPair ==
    \A n \in DOMAIN nbrs : \A i \in DOMAIN nbrs[n] : \A j \in DOMAIN nbrs[n] :
        nbrs[n][i].Node = nbrs[n][j].Node => i = j

RECURSIVE CostAlong(_, _)
\* the cost of the first k nodes of the path p as the driver adds it up: each
\* edge cost converted to float32 and added in float32 (astar.go:172)
CostAlong(p, k) ==
    IF k <= 1 THEN 0
    ELSE F32Add(CostAlong(p, k - 1), F32(EdgeCost(p[k - 1], p[k])))

\* C27: on a graph with one edge per ordered pair of nodes, the cost of every
\* PossiblePath notification is the sum of the costs of the edges between the
\* consecutive nodes of its path.
C27_CostMatchesPath ==
    OneEdgePerPair =>
        \A i \in CallsOf("PossiblePath") :
            /\ IsPath(calls[i].path)
            /\ calls[i].cost = PathCost(calls[i].path)

\* C27 with the sums of float32: the cost of every notification is the float32
\* sum of the costs of the edges along its path, added up from start in the
\* order of the path, and the path leads from start to end along edges of the
\* graph.  (Holds under Spec and BigSpec, not under TieSpec.)
C27_CostMatchesPathF32 ==
    OneEdgePerPair =>
        \A i \in CallsOf("PossiblePath") :
            /\ calls[i].path # << >>
            /\ calls[i].path[1] = start
            /\ Last(calls[i].path) = end
            /\ IsPath(calls[i].path)
            /\ calls[i].cost = CostAlong(calls[i].path, Len(calls[i].path))

\* ------------------------------------------------------ the legacy driver
\* FindPath of src/astar.go (lines 1-207): records point to their parent
\* record and count the records of the path that led to them, costs are
\* float64, and there are no hooks and no pruning bound.  The model uses the
\* variables of the driver: info is the map nodes, with the pointer parent as
\* << >> (nil) or <<p>> (the record of node p), heap is open.nodes; calls,
\* maxCost, first, hasDebug and hasPP are not used.  A float64 is << >>
\* (+Inf, which HeuristicCost may return) or <<c>>; the costs c are whole
\* numbers float64 adds exactly.
F64Add(a, b) == IF a = Inf \/ b = Inf THEN Inf ELSE <<a[1] + b[1]>>
F64Less(a, b) == a # Inf /\ (b = Inf \/ a[1] < b[1])
LegacyHCosts == {<<h>> : h \in HCosts} \cup {Inf}

nodeList_less(hs, i, j) ==
    F64Less(F64Add(<<At(hs, i).cost>>, At(hs, i).predictedCost),
            F64Add(<<At(hs, j).cost>>, At(hs, j).predictedCost))

nodeList_swap(hs, i, j) ==
    LET ni == hs.heap[i + 1]
        nj == hs.heap[j + 1]
        h1 == [hs.heap EXCEPT ![i + 1] = nj, ![j + 1] = ni]
        i1 == [hs.info EXCEPT ![h1[i + 1]].index = i]
        i2 == [i1 EXCEPT ![h1[j + 1]].index = j]
    IN  [info |-> i2, heap |-> h1]

RECURSIVE nodeList_up(_, _)
nodeList_up(hs, j) ==
    LET i == GoDiv(j - 1, 2)
    IN  IF i = j \/ ~nodeList_less(hs, j, i) THEN hs
        ELSE nodeList_up(nodeList_swap(hs, i, j), i)

RECURSIVE nodeList_down(_, _, _)
nodeList_down(hs, i, n) ==
    LET j1 == 2 * i + 1
        j2 == j1 + 1
        j == IF j2 < n /\ ~nodeList_less(hs, j1, j2) THEN j2 ELSE j1
    IN  IF j1 >= n \/ j1 < 0 THEN hs
        ELSE IF ~nodeList_less(hs, j, i) THEN hs
        ELSE nodeList_down(nodeList_swap(hs, i, j), j, n)

\* PopBest on a non-empty list: [info, heap, node], node the popped one
PopBest(hs) ==
    LET n == Len(hs.heap) - 1
        d == nodeList_down(nodeList_swap(hs, 0, n), 0, n)
        v == d.heap[n + 1]
    IN  [info |-> [d.info EXCEPT ![v].index = NoIndex],
         heap |-> SubSeq(d.heap, 1, n),
         node |-> v]

\* AddNodeInfo(ni) followed, for a new record, by nodes[ni.node] = ni
AddNodeInfo(hs, ni) ==
    LET i == Len(hs.heap)
        inf == IF ni.node \in DOMAIN hs.info
               THEN [hs.info EXCEPT ![ni.node] = [ni EXCEPT !.index = i]]
               ELSE hs.info @@ (ni.node :> [ni EXCEPT !.index = i])
    IN  nodeList_up([info |-> inf, heap |-> Append(hs.heap, ni.node)], i)

UpdateNodeInfo(hs, node) ==
    LET index == hs.info[node].index
        n == Len(hs.heap)
    IN  nodeList_up(nodeList_down(hs, index, n), index)

RECURSIVE FillPath(_, _, _, _)
\* The loop of src/astar.go:154-156 from the record n (<<node>>, or << >> for
\* nil) and the index i on: [panics, path].  path[i] = n.node with i below 0
\* is an index out of range, on which the program panics.
FillPath(inf, n, i, path) ==
    IF n = << >> THEN [panics |-> FALSE, path |-> path]
    ELSE IF i < 0 \/ i >= Len(path) THEN [panics |-> TRUE, path |-> path]
    ELSE FillPath(inf, inf[n[1]].parent, i - 1, [path EXCEPT ![i + 1] = n[1]])

\* src/astar.go:129-142
LegacyStartStep(T, Gr, ok, h) ==
    LET ni == [node |-> Gr.start, parent |-> << >>, count |-> 1, cost |-> 0,
               predictedCost |-> h, index |-> 0, open |-> TRUE]
        hs == AddNodeInfo([info |-> T.info, heap |-> T.heap], ni)
    IN  IF ~ok THEN Return(T, << >>, GraphErr("HeuristicCost", Gr.start), << >>)
        ELSE [T EXCEPT !.info = hs.info, !.heap = hs.heap, !.pc = "loop"]

\* One iteration of the outer loop up to the inner loop (src/astar.go:145-163).
\* ok: Neighbors returns no error.
LegacyPopStep(T, Gr, ok) ==
    IF T.heap = << >> THEN Return(T, << >>, ErrImpossible, << >>)
    ELSE
    LET p == PopBest([info |-> T.info, heap |-> T.heap])
        cur == p.info[p.node]
        T1 == [T EXCEPT !.info = p.info, !.heap = p.heap, !.current = <<p.node>>]
        f == FillPath(p.info, <<p.node>>, cur.count - 1, [i \in 1..cur.count |-> 0])
        T2 == [T1 EXCEPT !.info[p.node].open = FALSE]
    IN  IF p.node = Gr.end
        THEN IF f.panics THEN [T1 EXCEPT !.pc = "panic", !.pending = << >>]
             ELSE Return(T1, f.path, NoErr, << >>)
        ELSE IF ~ok THEN Return(T2, << >>, GraphErr("Neighbors", p.node), << >>)
        ELSE [T2 EXCEPT !.pending = Gr.nbrs[p.node],
                        !.pc = IF Gr.nbrs[p.node] = << >> THEN "loop" ELSE "edges"]

\* One iteration of the inner loop (src/astar.go:164-205), on the first edge
\* of pending.  ok: HeuristicCost, if called, returns no error; h: its value.
LegacyEdgeStep(T, Gr, ok, h) ==
    LET edge == Head(T.pending)
        rest == Tail(T.pending)
        cur == T.info[T.current[1]]
        cost == cur.cost + edge.Cost
        new == [node |-> edge.Node, parent |-> <<cur.node>>, count |-> cur.count + 1,
                cost |-> cost, predictedCost |-> h, index |-> 0, open |-> TRUE]
        hs == [info |-> T.info, heap |-> T.heap]
    IN  IF cur.parent # << >> /\ edge.Node = cur.parent[1] THEN NextEdge(T, rest)
        ELSE IF edge.Node \notin DOMAIN T.info
        THEN IF ~ok
             THEN Return(T, << >>, GraphErr("HeuristicCost", edge.Node), << >>)
             ELSE LET a == AddNodeInfo(hs, new)
                  IN  NextEdge([T EXCEPT !.info = a.info, !.heap = a.heap], rest)
        ELSE IF cost < T.info[edge.Node].cost
        THEN LET wasOpen == T.info[edge.Node].open
                 upd == [T.info EXCEPT ![edge.Node].open = TRUE,
                                       ![edge.Node].parent = <<cur.node>>,
                                       ![edge.Node].count = cur.count + 1,
                                       ![edge.Node].cost = cost]
                 a == IF wasOpen
                      THEN UpdateNodeInfo([info |-> upd, heap |-> T.heap], edge.Node)
                      ELSE AddNodeInfo([info |-> upd, heap |-> T.heap], upd[edge.Node])
             IN  NextEdge([T EXCEPT !.info = a.info, !.heap = a.heap], rest)
        ELSE NextEdge(T, rest)

\* the graph 0 -> 2, 0 -> 3, 2 -> 1, 3 -> 2 with the costs c, the edges of
\* node 0 in either order
LegacyGraph(c, swapped) ==
    LET e2 == [Node |-> 2, Cost |-> c[1]]
        e3 == [Node |-> 3, Cost |-> c[2]]
    IN  0 :> (IF swapped THEN <<e3, e2>> ELSE <<e2, e3>>)
        @@ 1 :> << >>
        @@ 2 :> <<[Node |-> 1, Cost |-> c[3]]>>
        @@ 3 :> <<[Node |-> 2, Cost |-> c[4]]>>

LegacyGraphs == {LegacyGraph(c, swapped) : c \in [1..4 -> Costs], swapped \in BOOLEAN}

\* FindPath(mp, 0, end) of src/astar.go on the graphs of LegacyGraphs
LegacyInit ==
    /\ start = 0
    /\ end \in {0, 1}
    /\ nbrs \in LegacyGraphs
    /\ hasDebug = FALSE
    /\ hasPP = FALSE
    /\ InitSearch
    /\ first = << >>

LegacyStart ==
    pc = "init" /\ \E ok \in BOOLEAN, h \in LegacyHCosts : Set(LegacyStartStep(S, G, ok, h))

LegacyPop == pc = "loop" /\ \E ok \in BOOLEAN : Set(LegacyPopStep(S, G, ok))

LegacyEdge ==
    pc = "edges" /\ \E ok \in BOOLEAN, h \in LegacyHCosts : Set(LegacyEdgeStep(S, G, ok, h))

LegacyNext == LegacyStart \/ LegacyPop \/ LegacyEdge

LegacySpec == LegacyInit /\ [][LegacyNext]_vars

RECURSIVE ParentChain(_, _, _)
\* the nodes of the records on the parent-pointer chain of the record n, n
\* first, up to a record whose parent is nil (or to a record met before)
ParentChain(inf, n, seen) ==
    IF n = << >> \/ n[1] \in seen THEN << >>
    ELSE <<n[1]>> \o ParentChain(inf, inf[n[1]].parent, seen \cup {n[1]})

\* C28: when the legacy driver has popped the record of end, the record's
\* count is the number of records on its parent-pointer chain, the chain ends
\* in the start record, and the driver returns the chain reversed as the
\* path, every slot of the slice of length count filled and no index below 0
\* used (the program does not panic).
C28_CountIsChainLength ==
    (current = <<end>> /\ pc \in {"done", "panic"}) =>
        LET chain == ParentChain(info, <<end>>, {})
        IN  /\ info[end].count = Len(chain)
            /\ chain[Len(chain)] = start
            /\ pc = "done"
            /\ result = [path |-> Reverse(chain), err |-> NoErr]

\* C28 without the heuristic values at which float64 ranks records equal
\* whatever their cost: holds
C28_CountIsChainLength_FiniteH ==
    (\A n \in DOMAIN info : info[n].predictedCost # Inf) => C28_CountIsChainLength
====
